---- MODULE Spec2Model ----
(***************************************************************************)
(* Model of the cmu1394 viewer (cmu1394Viewer.py): the MainWindow and      *)
(* SideBar event handlers, driven by the GUI events (refresh button,       *)
(* camera dropdown, format dropdown, 200 ms timer, window close).          *)
(* The camera driver is the environment: every call the viewer makes on a  *)
(* camera object is recorded, in order, in the variable calls.             *)
(* Python strings are sequences of one-character strings.                  *)
(***************************************************************************)
EXTENDS Integers, Sequences, FiniteSets, TLC

\* ---------------------------------------------------------------- bounds
NumCams == 2
MaxFormats == 3
NumFrames == 2

\* The framerate the viewer prefers.
PreferredFps == 30

None == 0
Cams == 1..NumCams
Frames == 1..NumFrames

\* ------------------------------------------------------- python strings
Ord(ch) ==
  CASE ch = " " -> 32
    [] ch = "0" -> 48 [] ch = "1" -> 49 [] ch = "2" -> 50 [] ch = "3" -> 51
    [] ch = "4" -> 52 [] ch = "5" -> 53 [] ch = "6" -> 54 [] ch = "7" -> 55
    [] ch = "8" -> 56 [] ch = "9" -> 57
    [] ch = "B" -> 66 [] ch = "G" -> 71 [] ch = "R" -> 82 [] ch = "Y" -> 89
    [] ch = "x" -> 120

\* a > b on Python 2 str objects: lexicographic on character codes, a proper
\* prefix being the smaller.
RECURSIVE StrGreater(_, _)
StrGreater(a, b) ==
  IF a = <<>> THEN FALSE
  ELSE IF b = <<>> THEN TRUE
  ELSE IF Head(a) = Head(b) THEN StrGreater(Tail(a), Tail(b))
  ELSE Ord(Head(a)) > Ord(Head(b))

\* str.split(sep) for a one-character separator.
RECURSIVE SplitFrom(_, _, _)
SplitFrom(s, sep, cur) ==
  IF s = <<>> THEN <<cur>>
  ELSE IF Head(s) = sep THEN <<cur>> \o SplitFrom(Tail(s), sep, <<>>)
  ELSE SplitFrom(Tail(s), sep, Append(cur, Head(s)))

Split(s, sep) == SplitFrom(s, sep, <<>>)

\* int(s) for a string of decimal digits.
RECURSIVE IntFrom(_, _)
IntFrom(s, acc) ==
  IF s = <<>> THEN acc
  ELSE IntFrom(Tail(s), 10 * acc + (Ord(Head(s)) - 48))

ParseInt(s) == IntFrom(s, 0)

\* ------------------------------------------------------- camera driver
\* Format strings cameras report.
F640Y8 == <<"6","4","0","x","4","8","0"," ","Y","8">>
F640RGB == <<"6","4","0","x","4","8","0"," ","R","G","B">>
F1024Y8 == <<"1","0","2","4","x","7","6","8"," ","Y","8">>

FormatPool == {F640Y8, F640RGB, F1024Y8}

DefaultFormat == F640Y8
DefaultFps == 15

\* What supported_formats() may return on any camera: formats of the pool, in
\* any order.
FormatLists ==
  UNION { { f \in [1..n -> FormatPool] :
              \A i, j \in 1..n : i # j => f[i] # f[j] } : n \in 1..MaxFormats }

\* supported_formats() of the cameras on the bus, in the driver's order.
supported_formats(c) ==
  IF c = 1 THEN <<F640Y8, F1024Y8, F640RGB>>
  ELSE IF c = 2 THEN <<F1024Y8, F640Y8>>
  ELSE <<F640Y8, F640RGB>>

\* What get_cameras() may return: the connected cameras, in enumeration order.
Enumerations ==
  UNION { { f \in [1..n -> Cams] :
              \A i, j \in 1..n : i # j => f[i] # f[j] } : n \in 0..NumCams }

\* supported_framerates(): depends on the camera and on its current format.
supported_framerates(c, fmt) ==
  IF fmt = F1024Y8 THEN <<7, 15>>
  ELSE IF fmt = F640RGB THEN <<15, 30, 60>>
  ELSE IF c = 1 THEN <<30, 15>>
  ELSE <<15, 60>>

description(c) == <<"camera", c>>

\* ------------------------------------------------------------- state
VARIABLES
  theCam,       \* SideBar._theCam: None or a camera
  texture,      \* SideBar._texture: the displayed texture, if made
  cams,         \* SideBar._listCameras._cams
  listCameras,  \* items of the camera dropdown
  listFormats,  \* items of the format dropdown
  formatIndex,  \* current index of the format dropdown (-1: none)
  labelFps,     \* n of the label's 'n fps'
  camFormat,    \* driver: each camera's current format
  camFps,       \* driver: each camera's current framerate
  touched,      \* per camera: get_data, set_format or set_framerate was
                \* called on it since its last stop()
  closed,       \* the main window received its close event
  calls,        \* the camera calls of the most recent handler, in order
  last          \* the most recent handler and its argument

vars == <<theCam, texture, cams, listCameras, listFormats, formatIndex,
          labelFps, camFormat, camFps, touched, closed, calls, last>>

NoTexture == [made |-> FALSE, cam |-> None, fmt |-> <<>>, data |-> 0]

NoCameraSelected == <<"<No camera selected>">>
NoCamerasDetected == <<"<No cameras detected>">>
NoCameraAvailable(n) == <<"<No camera (%i available)>", n>>

Cur ==
  [theCam |-> theCam, texture |-> texture, cams |-> cams,
   listCameras |-> listCameras, listFormats |-> listFormats,
   formatIndex |-> formatIndex, labelFps |-> labelFps,
   camFormat |-> camFormat, camFps |-> camFps, touched |-> touched,
   closed |-> closed, calls |-> <<>>]

\* ------------------------------------------------- calls on a camera
Call(S, op, c, arg) ==
  [S EXCEPT !.calls = Append(@, [op |-> op, cam |-> c, arg |-> arg])]

cam_stop(S, c) ==
  [Call(S, "stop", c, <<>>) EXCEPT !.touched[c] = FALSE]

cam_set_format(S, c, fmt) ==
  [Call(S, "set_format", c, fmt) EXCEPT !.camFormat[c] = fmt,
                                        !.touched[c] = TRUE]

cam_set_framerate(S, c, fps) ==
  [Call(S, "set_framerate", c, fps) EXCEPT !.camFps[c] = fps,
                                           !.touched[c] = TRUE]

cam_get_data(S, c, im) ==
  [Call(S, "get_data", c, im) EXCEPT !.touched[c] = TRUE]

\* ------------------------------------------------------------ SideBar
Range(s) == { s[i] : i \in 1..Len(s) }

Max(s) == CHOOSE m \in Range(s) : \A e \in Range(s) : e <= m

\* Mutant of setFrameRate: the largest framerate, 30 or not.
setFrameRate_AlwaysMax(S) ==
  IF S.theCam # None
  THEN LET c == S.theCam
           fpss == supported_framerates(c, S.camFormat[c])
           S1 == Call(S, "supported_framerates", c, fpss)
           fps == Max(fpss)
       IN [cam_set_framerate(S1, c, fps) EXCEPT !.labelFps = fps]
  ELSE [S EXCEPT !.labelFps = 0]

\* SideBar.setFrameRate
setFrameRate(S) ==
  IF S.theCam # None
  THEN LET c == S.theCam
           fpss == supported_framerates(c, S.camFormat[c])
           S1 == Call(S, "supported_framerates", c, fpss)
           fps == IF PreferredFps \in Range(fpss) THEN PreferredFps
                  ELSE Max(fpss)
       IN [cam_set_framerate(S1, c, fps) EXCEPT !.labelFps = fps]
  ELSE [S EXCEPT !.labelFps = 0]

PixelCount(a) ==
  LET axy == Split(Split(a, " ")[1], "x")
  IN ParseInt(axy[1]) * ParseInt(axy[2])

\* Mutant of sorter: the strings compared, not the pixel counts.
sorter_ByString(a, b) == IF StrGreater(a, b) THEN 1 ELSE -1

\* sorter(a, b) of refreshFormatList: the cmp function of the sort.
sorter(a, b) ==
  LET an == PixelCount(a)
      bn == PixelCount(b)
  IN IF an = bn
     THEN (IF StrGreater(a, b) THEN 1 ELSE -1)
     ELSE (IF an > bn THEN 1 ELSE -1)

\* list.sort(cmp=sorter): insertion sort, x placed before the first element
\* it compares less than.
RECURSIVE Insert(_, _)
Insert(x, s) ==
  IF s = <<>> THEN <<x>>
  ELSE IF sorter(x, Head(s)) < 0 THEN <<x>> \o s
  ELSE <<Head(s)>> \o Insert(x, Tail(s))

RECURSIVE Sort(_)
Sort(s) ==
  IF s = <<>> THEN <<>>
  ELSE Insert(s[Len(s)], Sort(SubSeq(s, 1, Len(s) - 1)))

\* The current index after the items of sorted were added to the emptied
\* dropdown: 0 from the first addItem, then that of the camera's format.
RECURSIVE CurrentIndex(_, _, _, _)
CurrentIndex(sorted, theFormat, i, idx) ==
  IF i > Len(sorted) THEN idx
  ELSE CurrentIndex(sorted, theFormat, i + 1,
                    IF sorted[i] = theFormat THEN i - 1
                    ELSE IF idx = -1 THEN 0 ELSE idx)

\* SideBar.refreshFormatList; formats is what supported_formats() returns.
refreshFormatList(S, formats) ==
  IF S.theCam # None
  THEN LET c == S.theCam
           S1 == Call(S, "supported_formats", c, formats)
           theFormat == S1.camFormat[c]
           S2 == Call(S1, "format", c, theFormat)
           sorted == Sort(formats)
       IN setFrameRate([S2 EXCEPT
            !.listFormats = sorted,
            !.formatIndex = CurrentIndex(sorted, theFormat, 1, -1)])
  ELSE setFrameRate([S EXCEPT !.listFormats = <<NoCameraSelected>>,
                              !.formatIndex = 0])

\* Mutant of activateCamera: the current camera is not stopped.
activateCamera_NoStop(S, index, formats) ==
  LET S2 == [S EXCEPT !.texture = NoTexture]
      S3 == [S2 EXCEPT !.theCam = IF index = 0 THEN None
                                  ELSE S2.cams[index]]
  IN refreshFormatList(S3, formats)

\* Mutant of activateCamera: cams[-index] for cams[index-1].
activateCamera_FromEnd(S, index, formats) ==
  LET S1 == IF S.theCam # None THEN cam_stop(S, S.theCam) ELSE S
      S2 == [S1 EXCEPT !.texture = NoTexture]
      S3 == [S2 EXCEPT !.theCam = IF index = 0 THEN None
                                  ELSE S2.cams[Len(S2.cams) - index + 1]]
  IN refreshFormatList(S3, formats)

\* SideBar.activateCamera
activateCamera(S, index, formats) ==
  LET S1 == IF S.theCam # None THEN cam_stop(S, S.theCam) ELSE S
      S2 == [S1 EXCEPT !.texture = NoTexture]
      S3 == [S2 EXCEPT !.theCam = IF index = 0 THEN None
                                  ELSE S2.cams[index]]
  IN refreshFormatList(S3, formats)

RECURSIVE Describe(_, _, _)
Describe(S, cs, i) ==
  IF i > Len(cs) THEN S
  ELSE Describe(
         [Call(S, "description", cs[i], description(cs[i])) EXCEPT
            !.listCameras = Append(@, description(cs[i]))],
         cs, i + 1)

\* Mutant of refreshCameraList: the selection is not reset.
refreshCameraList_NoReset(S, newcams, formats) ==
  LET S1 == [S EXCEPT !.listCameras = <<>>, !.cams = newcams]
  IN IF newcams # <<>>
     THEN Describe(
            [S1 EXCEPT !.listCameras = <<NoCameraAvailable(Len(newcams))>>],
            newcams, 1)
     ELSE [S1 EXCEPT !.listCameras = <<NoCamerasDetected>>]

\* SideBar.refreshCameraList; newcams is what get_cameras() returns.
refreshCameraList(S, newcams, formats) ==
  LET S1 == [S EXCEPT !.listCameras = <<>>, !.cams = newcams]
      S2 == IF newcams # <<>>
            THEN Describe(
                   [S1 EXCEPT !.listCameras =
                                <<NoCameraAvailable(Len(newcams))>>],
                   newcams, 1)
            ELSE [S1 EXCEPT !.listCameras = <<NoCamerasDetected>>]
  IN activateCamera(S2, 0, formats)

\* Mutant of activateFormat: the framerate is set before the format.
activateFormat_RateFirst(S, index, formats) ==
  IF S.theCam = None
  THEN refreshFormatList(S, formats)
  ELSE LET format == S.listFormats[index + 1]
           S1 == setFrameRate(S)
           S2 == cam_set_format(S1, S1.theCam, format)
       IN [S2 EXCEPT !.texture = NoTexture]

\* Mutant of activateFormat: the texture is kept.
activateFormat_KeepTexture(S, index, formats) ==
  IF S.theCam = None
  THEN refreshFormatList(S, formats)
  ELSE LET format == S.listFormats[index + 1]
           S1 == cam_set_format(S, S.theCam, format)
       IN setFrameRate(S1)

\* SideBar.activateFormat
activateFormat(S, index, formats) ==
  IF S.theCam = None
  THEN refreshFormatList(S, formats)
  ELSE LET format == S.listFormats[index + 1]
           S1 == cam_set_format(S, S.theCam, format)
           S2 == [S1 EXCEPT !.texture = NoTexture]
       IN setFrameRate(S2)

\* Mutant of onTimerTimeout: an existing texture keeps its data.
onTimerTimeout_NoUpdate(S, im) ==
  IF S.theCam = None
  THEN S
  ELSE LET c == S.theCam
           S1 == cam_get_data(S, c, im)
       IN IF ~S1.texture.made
          THEN [S1 EXCEPT !.texture =
                 [made |-> TRUE, cam |-> c, fmt |-> S1.camFormat[c],
                  data |-> im]]
          ELSE S1

\* SideBar.onTimerTimeout; im is what get_data() returns.
onTimerTimeout(S, im) ==
  IF S.theCam = None
  THEN S
  ELSE LET c == S.theCam
           S1 == cam_get_data(S, c, im)
       IN IF ~S1.texture.made
          THEN [S1 EXCEPT !.texture =
                 [made |-> TRUE, cam |-> c, fmt |-> S1.camFormat[c],
                  data |-> im]]
          ELSE [S1 EXCEPT !.texture.data = im]

\* Mutant of closeEvent: the camera is not stopped.
closeEvent_NoStop(S) == [S EXCEPT !.closed = TRUE]

\* MainWindow.closeEvent
closeEvent(S) ==
  LET S1 == [S EXCEPT !.closed = TRUE]
  IN IF S1.theCam # None THEN cam_stop(S1, S1.theCam) ELSE S1

\* ------------------------------------------------------------ actions
Blank ==
  [theCam |-> None, texture |-> NoTexture, cams |-> <<>>,
   listCameras |-> <<>>, listFormats |-> <<>>, formatIndex |-> -1,
   labelFps |-> 0,
   camFormat |-> [c \in Cams |-> DefaultFormat],
   camFps |-> [c \in Cams |-> DefaultFps],
   touched |-> [c \in Cams |-> FALSE],
   closed |-> FALSE, calls |-> <<>>]

Start(S) ==
  /\ theCam = S.theCam
  /\ texture = S.texture
  /\ cams = S.cams
  /\ listCameras = S.listCameras
  /\ listFormats = S.listFormats
  /\ formatIndex = S.formatIndex
  /\ labelFps = S.labelFps
  /\ camFormat = S.camFormat
  /\ camFps = S.camFps
  /\ touched = S.touched
  /\ closed = S.closed
  /\ calls = S.calls
  /\ last = [op |-> "init", arg |-> 0]

Commit(S, op, arg) ==
  /\ theCam' = S.theCam
  /\ texture' = S.texture
  /\ cams' = S.cams
  /\ listCameras' = S.listCameras
  /\ listFormats' = S.listFormats
  /\ formatIndex' = S.formatIndex
  /\ labelFps' = S.labelFps
  /\ camFormat' = S.camFormat
  /\ camFps' = S.camFps
  /\ touched' = S.touched
  /\ closed' = S.closed
  /\ calls' = S.calls
  /\ last' = [op |-> op, arg |-> arg]

\* SideBar.__init__ ends with refreshCameraList().
Init == \E newcams \in Enumerations :
          \E S \in {refreshCameraList(Blank, newcams, <<>>)} : Start(S)

\* The refresh button is pressed.
RefreshCameraList ==
  /\ ~closed
  /\ \E newcams \in Enumerations :
       \E S \in {refreshCameraList(Cur, newcams, <<>>)} :
         Commit(S, "refreshCameraList", 0)

\* An entry of the camera dropdown is activated.
ActivateCamera ==
  /\ ~closed
  /\ \E index \in 0..(Len(listCameras) - 1) :
       \E S \in {activateCamera(Cur, index,
                    IF index = 0 THEN <<>>
                    ELSE supported_formats(cams[index]))} :
         Commit(S, "activateCamera", index)

\* An entry of the format dropdown is activated.
ActivateFormat ==
  /\ ~closed
  /\ \E index \in 0..(Len(listFormats) - 1) :
       \E S \in {activateFormat(Cur, index, <<>>)} :
         Commit(S, "activateFormat", index)

\* The repeating timer fires; nothing in the viewer ever stops it.
Tick ==
  \E im \in Frames :
    \E S \in {onTimerTimeout(Cur, im)} :
      Commit(S, "onTimerTimeout", im)

\* The main window is closed.
Close ==
  /\ ~closed
  /\ \E S \in {closeEvent(Cur)} : Commit(S, "closeEvent", 0)

Next ==
  \/ RefreshCameraList
  \/ ActivateCamera
  \/ ActivateFormat
  \/ Tick
  \/ Close

Spec == Init /\ [][Next]_vars

\* The format list of refreshFormatList on every list a camera may report.
ActivateAnyCamera ==
  /\ ~closed
  /\ \E index \in 0..(Len(listCameras) - 1) :
       \E formats \in (IF index = 0 THEN {<<>>} ELSE FormatLists) :
         \E S \in {activateCamera(Cur, index, formats)} :
           Commit(S, "activateCamera", index)

FormatNext ==
  \/ RefreshCameraList
  \/ ActivateAnyCamera

FormatSpec == Init /\ [][FormatNext]_vars

\* ------------------------------------------------------------ claims
StopCall(c) == [op |-> "stop", cam |-> c, arg |-> <<>>]

Ops(cs) == { cs[i].op : i \in 1..Len(cs) }

\* C1: a close event stops the selected camera, and with no camera selected
\* it calls stop() on nothing, whatever events came before.
C1_CloseStopsCamera ==
  [][last'.op = "closeEvent" =>
       /\ calls' = IF theCam # None THEN <<StopCall(theCam)>> ELSE <<>>
       /\ theCam' = theCam]_vars

C1_Witness ==
  /\ last.op = "closeEvent"
  /\ theCam # None
  /\ calls = <<StopCall(theCam)>>
  /\ ~touched[theCam]

\* The pixel counts of the formats, by hand.
Pixels(f) ==
  CASE f = F640Y8 -> 307200
    [] f = F640RGB -> 307200
    [] f = F1024Y8 -> 786432

\* a <= b as strings: equal, or at the first difference a has ended or has
\* the smaller character.
StrLessEq(a, b) ==
  \/ a = b
  \/ \E k \in 1..(Len(b)) :
       /\ k <= Len(a) + 1
       /\ SubSeq(a, 1, k - 1) = SubSeq(b, 1, k - 1)
       /\ (k = Len(a) + 1 \/ Ord(a[k]) < Ord(b[k]))

Count(f, l) == Cardinality({ i \in 1..Len(l) : l[i] = f })

IsPermutation(l, m) ==
  /\ Len(l) = Len(m)
  /\ \A f \in Range(l) \cup Range(m) : Count(f, l) = Count(f, m)

\* C2: after refreshFormatList with a camera selected the format dropdown is
\* a permutation of the camera's supported formats, in non-decreasing pixel
\* count, formats of equal pixel count in string order.
C2_FormatsSorted ==
  \A n \in 1..Len(calls) :
    calls[n].op = "supported_formats" =>
      /\ IsPermutation(listFormats, calls[n].arg)
      /\ \A i, j \in 1..Len(listFormats) :
           i < j =>
             /\ Pixels(listFormats[i]) <= Pixels(listFormats[j])
             /\ Pixels(listFormats[i]) = Pixels(listFormats[j])
                  => StrLessEq(listFormats[i], listFormats[j])

C2_Witness ==
  /\ theCam # None
  /\ Len(calls) >= 1
  /\ calls[1].op = "supported_formats"
  /\ calls[1].arg = <<F1024Y8, F640Y8, F640RGB>>
  /\ listFormats = <<F640RGB, F640Y8, F1024Y8>>

RateCalls == { n \in 1..Len(calls) : calls[n].op = "set_framerate" }

\* The call before a set_framerate call is the supported_framerates call on
\* the same camera, whose answer the framerate is chosen from.
AsksBeforeSetting(n) ==
  /\ n >= 2
  /\ calls[n - 1].op = "supported_framerates"
  /\ calls[n - 1].cam = calls[n].cam
  /\ calls[n].cam = theCam

\* C3 as claimed: the framerate set is a supported one, is at most 30, and is
\* 30 whenever 30 is supported.
C3_AtMostPreferred ==
  \A n \in RateCalls :
    /\ AsksBeforeSetting(n)
    /\ calls[n].arg \in Range(calls[n - 1].arg)
    /\ calls[n].arg <= PreferredFps
    /\ PreferredFps \in Range(calls[n - 1].arg) => calls[n].arg = PreferredFps

\* C3, amended: the framerate set is a supported one; it is 30 whenever 30 is
\* supported and the largest supported framerate otherwise.
C3_PreferredOrMax ==
  \A n \in RateCalls :
    /\ AsksBeforeSetting(n)
    /\ calls[n].arg \in Range(calls[n - 1].arg)
    /\ PreferredFps \in Range(calls[n - 1].arg) => calls[n].arg = PreferredFps
    /\ PreferredFps \notin Range(calls[n - 1].arg)
         => \A r \in Range(calls[n - 1].arg) : r <= calls[n].arg

C3_Witness ==
  /\ theCam # None
  /\ \E n \in RateCalls :
       /\ n >= 2
       /\ calls[n - 1].arg = <<15, 30, 60>>
       /\ calls[n].arg = 30
  /\ labelFps = 30

\* C4: a timer tick with a camera selected pulls one frame from it and the
\* texture then holds that frame (made anew if there was none, its data
\* replaced otherwise); with no camera selected it pulls nothing and leaves
\* texture and selection alone.
C4_TimerTick ==
  [][last'.op = "onTimerTimeout" =>
       IF theCam # None
       THEN /\ Len(calls') = 1
            /\ calls'[1].op = "get_data"
            /\ calls'[1].cam = theCam
            /\ texture' = IF texture.made
                          THEN [texture EXCEPT !.data = calls'[1].arg]
                          ELSE [made |-> TRUE, cam |-> theCam,
                                fmt |-> camFormat[theCam],
                                data |-> calls'[1].arg]
            /\ theCam' = theCam
       ELSE /\ calls' = <<>>
            /\ texture' = texture
            /\ theCam' = theCam]_vars

C4_Witness ==
  /\ last.op = "onTimerTimeout"
  /\ theCam # None
  /\ texture.made
  /\ texture.data = 2
  /\ calls = <<[op |-> "get_data", cam |-> theCam, arg |-> 2]>>

Descriptions(cs) == [i \in 1..Len(cs) |-> description(cs[i])]

\* C5: after refreshCameraList no camera is selected, the camera dropdown is
\* a placeholder followed by the enumerated cameras in order, the format
\* dropdown is the '<No camera selected>' placeholder and the label '0 fps'.
C5_RefreshResets ==
  last.op \in {"refreshCameraList", "init"} =>
    /\ theCam = None
    /\ listCameras =
         IF cams = <<>> THEN <<NoCamerasDetected>>
         ELSE <<NoCameraAvailable(Len(cams))>> \o Descriptions(cams)
    /\ listFormats = <<NoCameraSelected>>
    /\ labelFps = 0

C5_Witness ==
  /\ last.op = "refreshCameraList"
  /\ Len(cams) = 2
  /\ "stop" \in Ops(calls)
  /\ theCam = None

\* C6: activateCamera(index) selects no camera for index 0 and the
\* (index-1)-th camera of the latest enumeration otherwise, the one shown at
\* dropdown entry index; the current camera is always none or enumerated.
C6_PickedCamera ==
  /\ last.op = "activateCamera" =>
       /\ last.arg = 0 => theCam = None
       /\ last.arg > 0 =>
            /\ theCam = cams[last.arg]
            /\ listCameras[last.arg + 1] = description(theCam)
  /\ theCam = None \/ theCam \in Range(cams)

C6_Witness ==
  /\ last.op = "activateCamera"
  /\ last.arg = 2
  /\ theCam = cams[2]

\* C7: activateFormat(index) with a camera selected sets the format of entry
\* index, then asks for the framerates and sets one of them, so it is one
\* supported under the new format; with no camera selected it sets no format
\* and no framerate and leaves the format list at its placeholder.
C7_FormatThenRate ==
  [][last'.op = "activateFormat" =>
       IF theCam # None
       THEN /\ Len(calls') = 3
            /\ calls'[1] = [op |-> "set_format", cam |-> theCam,
                            arg |-> listFormats[last'.arg + 1]]
            /\ calls'[2] = [op |-> "supported_framerates", cam |-> theCam,
                            arg |-> supported_framerates(
                                      theCam, listFormats[last'.arg + 1])]
            /\ calls'[3].op = "set_framerate"
            /\ calls'[3].cam = theCam
            /\ calls'[3].arg \in Range(calls'[2].arg)
       ELSE /\ Ops(calls') \cap {"set_format", "set_framerate"} = {}
            /\ listFormats' = <<NoCameraSelected>>]_vars

C7_Witness ==
  /\ last.op = "activateFormat"
  /\ theCam # None
  /\ Len(calls) = 3
  /\ calls[1].op = "set_format"
  /\ calls[1].arg = F1024Y8
  /\ calls[3].arg = 15

\* C8: activateCamera, and refreshCameraList through it, stop the current
\* camera before the selection changes and before anything is asked of the
\* newly selected one; so every camera but the current one was stopped after
\* its last get_data, set_format or set_framerate.
C8_StopBeforeSwitch ==
  /\ [](\A c \in Cams : c # theCam => ~touched[c])
  /\ [][(last'.op \in {"activateCamera", "refreshCameraList"}
           /\ theCam # None) =>
          \E i \in 1..Len(calls') :
            /\ calls'[i] = StopCall(theCam)
            /\ \A j \in 1..(i - 1) : calls'[j].op = "description"
            /\ last'.op = "activateCamera" => i = 1]_vars

C8_Witness ==
  /\ last.op = "activateCamera"
  /\ theCam = 2
  /\ touched[2]
  /\ calls[1] = StopCall(1)

\* C9: a texture exists only while a camera is selected and was made from a
\* frame of that camera in its current format; activateCamera,
\* refreshCameraList and activateFormat all discard the texture.
C9_TextureFresh ==
  /\ [](texture.made =>
          /\ theCam # None
          /\ texture.cam = theCam
          /\ texture.fmt = camFormat[theCam])
  /\ [][last'.op \in {"activateCamera", "refreshCameraList",
                      "activateFormat"} => ~texture'.made]_vars

C9_Witness ==
  /\ texture.made
  /\ texture.cam = theCam
  /\ texture.fmt = F1024Y8
  /\ camFormat[theCam] # DefaultFormat

\* C10: once the close event has stopped the camera it stays stopped: no
\* later timer tick calls get_data on it.
C10_StaysStopped ==
  closed => \A c \in Cams : ~touched[c]

====
